---- MODULE Spec2Model ----
(***************************************************************************)
(* A model of the eino chain builder (compose/chain.go), of the graph      *)
(* builder, compiler and superstep scheduler it sits on, and of the ReAct  *)
(* agent graph (flow/agent/react).                                         *)
(***************************************************************************)
EXTENDS Integers, Sequences, FiniteSets, TLC

(***************************************************************************)
(* Bounds of the model.                                                    *)
(***************************************************************************)
\* the number of calls (Append*, Compile, compile) made on a chain under Spec
MaxCalls == 3
\* the number of Append* calls made on a chain that is then run (RunSpec)
MaxAppends == 3
\* the number of nodes of a Parallel
MaxParallel == 2
\* the largest MaxStep an AgentConfig is given (0 is MaxStep left unset)
MaxConfigStep == 2
\* no run of the model takes more steps than this
StepCap == 14
\* the longest stream given to a function called on its own
MaxChunks == 3
\* the most tool calls of a message given to a function called on its own
MaxToolCalls == 3
\* the deepest pointer type NewInstance is called with (depth 2 is **int)
MaxPtrDepth == 3

(***************************************************************************)
(* Values shared by the builder and the scheduler.                         *)
(***************************************************************************)
Nil == "nil"
START == "start"
END == "end"
AnyPredecessor == "any_predecessor"
AllPredecessor == "all_predecessor"
ComponentOfChain == "Chain"

\* the *graphNode values handed to Append*: a lambda that appends its name
\* to its input, a passthrough, each with or without a key set by the user
\* key is the node key set by the user ("" when none), outputKey the label a
\* Parallel gives the node's output ("" outside a Parallel)
Node(name, key, kind, outputKey) ==
  [name |-> name, key |-> key, kind |-> kind, outputKey |-> outputKey]
NilNode == Node("", "", "nil", "")
PassthroughNode == Node("Passthrough", "", "passthrough", "")
\* the i-th Append* call (0-based) hands in the lambda named NodeNames[i+1],
\* without a user key or with the user key "k"
NodeNames == <<"A", "B", "C", "D", "E", "F">>
LambdaNodes(i) == {Node(NodeNames[i + 1], k, "lambda", "") : k \in {"", "k"}}

RECURSIVE SeqToSet(_)
SeqToSet(s) == IF s = <<>> THEN {} ELSE {Head(s)} \cup SeqToSet(Tail(s))

\* every ordering of the elements of a finite set, as sequences
RECURSIVE Orderings(_)
Orderings(S) ==
  IF S = {} THEN {<<>>}
  ELSE UNION {{<<x>> \o o : o \in Orderings(S \ {x})} : x \in S}

(***************************************************************************)
(* The graph builder: AddNode, AddEdge, AddBranch on a graph value g.      *)
(* Each returns the graph after the call and the error of the call.        *)
(***************************************************************************)
NewGraph ==
  [nodes |-> << >>, edges |-> <<>>, branches |-> <<>>, buildError |-> Nil,
   frozen |-> FALSE, compileChecker |-> <<>>]

NodeKeys(g) == DOMAIN g.nodes

isFrozen(g) == g.frozen

Poison(g, e) == [g |-> [g EXCEPT !.buildError = e], err |-> e]

GraphAddNode(g, key, node) ==
  IF g.buildError # Nil THEN [g |-> g, err |-> g.buildError]
  ELSE IF g.frozen THEN [g |-> g, err |-> "graph has been compiled"]
  ELSE IF key \in {START, END} \/ key \in NodeKeys(g)
    THEN Poison(g, "duplicate node key")
  ELSE [g |-> [g EXCEPT !.nodes = (key :> node) @@ g.nodes], err |-> Nil]

GraphAddEdge(g, from, to) ==
  IF g.buildError # Nil THEN [g |-> g, err |-> g.buildError]
  ELSE IF g.frozen THEN [g |-> g, err |-> "graph has been compiled"]
  ELSE IF from = END \/ to = START
            \/ from \notin NodeKeys(g) \cup {START}
            \/ to \notin NodeKeys(g) \cup {END}
    THEN Poison(g, "edge references an unknown node")
  ELSE [g |-> [g EXCEPT !.edges = Append(g.edges, <<from, to>>)], err |-> Nil]

GraphAddBranch(g, from, branch) ==
  IF g.buildError # Nil THEN [g |-> g, err |-> g.buildError]
  ELSE IF g.frozen THEN [g |-> g, err |-> "graph has been compiled"]
  ELSE IF from = END \/ from \notin NodeKeys(g) \cup {START}
            \/ ~(branch.endNodes \subseteq NodeKeys(g) \cup {END})
    THEN Poison(g, "branch references an unknown node")
  ELSE IF Cardinality(branch.endNodes) < 2
    THEN Poison(g, "branch candidate set size is less than 2")
  ELSE [g |-> [g EXCEPT !.branches = Append(g.branches, [from |-> from] @@ branch)],
        err |-> Nil]

(***************************************************************************)
(* The chain: compose/chain.go.                                            *)
(***************************************************************************)
NewChain ==
  [err |-> Nil, gg |-> NewGraph, namePrefix |-> "", nodeIdx |-> 0,
   preNodeKeys |-> <<>>]

\* reportError: save the first error in the chain
\* reportError that keeps the last error instead of the first
reportErrorLast(c, e) == [c EXCEPT !.err = e]

reportError(c, e) == IF c.err = Nil THEN [c EXCEPT !.err = e] ELSE c

\* nextNodeKey: the key "Chain[idx]_name", and the chain with nodeIdx advanced
nextNodeKey(c, name) ==
  LET prefix == IF c.namePrefix = "" THEN ComponentOfChain ELSE c.namePrefix
  IN [key |-> prefix \o "[" \o ToString(c.nodeIdx) \o "]_" \o name,
      c |-> [c EXCEPT !.namePrefix = prefix, !.nodeIdx = c.nodeIdx + 1]]

\* the loop of addNode over preNodeKeys: stops at the first AddEdge error
RECURSIVE AddEdgesTo(_, _, _)
AddEdgesTo(g, pres, nodeKey) ==
  IF pres = <<>> THEN [g |-> g, err |-> Nil]
  ELSE LET r == GraphAddEdge(g, Head(pres), nodeKey)
       IN IF r.err # Nil THEN r ELSE AddEdgesTo(r.g, Tail(pres), nodeKey)

\* addNode that appends the new node to preNodeKeys instead of replacing them
addNodeKeepsPre(c, node) ==
  IF c.err # Nil THEN c
  ELSE IF node = NilNode THEN reportError(c, "chain add node invalid, node is nil")
  ELSE
    LET nk == nextNodeKey(c, node.name)
        nodeKey == IF node.key # "" THEN node.key ELSE nk.key
        r1 == GraphAddNode(nk.c.gg, nodeKey, node)
        c1 == reportError([nk.c EXCEPT !.gg = r1.g], r1.err)
        pres == IF c1.preNodeKeys = <<>> THEN <<START>> ELSE c1.preNodeKeys
        r2 == AddEdgesTo(c1.gg, pres, nodeKey)
        c2 == [c1 EXCEPT !.gg = r2.g, !.preNodeKeys = pres]
    IN IF r2.err # Nil THEN reportError(c2, r2.err)
       ELSE [c2 EXCEPT !.preNodeKeys = Append(pres, nodeKey)]

addNode(c, node) ==
  IF c.err # Nil THEN c
  ELSE IF node = NilNode THEN reportError(c, "chain add node invalid, node is nil")
  ELSE
    LET nk == nextNodeKey(c, node.name)
        nodeKey == IF node.key # "" THEN node.key ELSE nk.key
        r1 == GraphAddNode(nk.c.gg, nodeKey, node)
        c1 == reportError([nk.c EXCEPT !.gg = r1.g], r1.err)
        pres == IF c1.preNodeKeys = <<>> THEN <<START>> ELSE c1.preNodeKeys
        r2 == AddEdgesTo(c1.gg, pres, nodeKey)
        c2 == [c1 EXCEPT !.gg = r2.g, !.preNodeKeys = pres]
    IN IF r2.err # Nil THEN reportError(c2, r2.err)
       ELSE [c2 EXCEPT !.preNodeKeys = <<nodeKey>>]

\* the *ChainBranch values handed to AppendBranch: nil, one that carries an
\* error, and branches with 0, 1 or 2 nodes added under the keys "b1", "b2"
NilBranch == [isNil |-> TRUE, err |-> Nil, key2BranchNode |-> << >>]
BranchOf(keys, e) ==
  [isNil |-> FALSE, err |-> e,
   key2BranchNode |-> [k \in keys |-> Node("N" \o k, "", "lambda", "")]]
ChainBranches ==
  {NilBranch, BranchOf({"b1"}, "branch error"),
   BranchOf({}, Nil), BranchOf({"b1"}, Nil), BranchOf({"b1", "b2"}, Nil)}

\* the loop of AppendBranch over key2BranchNode, in the iteration order
\* `keys`: stops at the first addNode error
RECURSIVE AddBranchNodes(_, _, _, _, _)
AddBranchNodes(g, b, pName, keys, key2NodeKey) ==
  IF keys = <<>> THEN [g |-> g, err |-> Nil, key2NodeKey |-> key2NodeKey]
  ELSE LET key == Head(keys)
           node == b.key2BranchNode[key]
           nodeKey == pName \o "[" \o key \o "]_" \o node.name
           r == GraphAddNode(g, nodeKey, node)
       IN IF r.err # Nil
            THEN [g |-> r.g, err |-> r.err, key2NodeKey |-> key2NodeKey]
            ELSE AddBranchNodes(r.g, b, pName, Tail(keys),
                                (key :> nodeKey) @@ key2NodeKey)

\* AppendBranch that hangs the branch off the first of several previous nodes
AppendBranchOffFirst(c, b, iter, vals) ==
  IF b.isNil THEN reportError(c, "append branch invalid, branch is nil")
  ELSE IF b.err # Nil THEN reportError(c, "append branch error")
  ELSE IF Cardinality(DOMAIN b.key2BranchNode) = 0
    THEN reportError(c, "append branch invalid, nodeList is empty")
  ELSE IF Cardinality(DOMAIN b.key2BranchNode) = 1
    THEN reportError(c, "append branch invalid, nodeList length = 1")
  ELSE
    LET startNode == IF Len(c.preNodeKeys) = 0 THEN START ELSE c.preNodeKeys[1]
        nk == nextNodeKey(c, "Branch")
        r1 == AddBranchNodes(nk.c.gg, b, nk.key, iter, << >>)
        c1 == [nk.c EXCEPT !.gg = r1.g]
        gBranch == [kind |-> "chain", key2NodeKey |-> r1.key2NodeKey,
                    endNodes |-> {r1.key2NodeKey[k] : k \in DOMAIN r1.key2NodeKey}]
        r2 == GraphAddBranch(c1.gg, startNode, gBranch)
    IN IF r1.err # Nil THEN reportError(c1, "add branch node to chain failed")
       ELSE IF r2.err # Nil
         THEN reportError([c1 EXCEPT !.gg = r2.g], "chain append branch failed")
       ELSE [c1 EXCEPT !.gg = r2.g,
                       !.preNodeKeys = [i \in 1..Len(vals) |-> r1.key2NodeKey[vals[i]]]]

\* AppendBranch; `iter` is the order in which the Go map key2BranchNode is
\* ranged over, `vals` the order in which gmap.Values lists key2NodeKey
AppendBranch(c, b, iter, vals) ==
  IF b.isNil THEN reportError(c, "append branch invalid, branch is nil")
  ELSE IF b.err # Nil THEN reportError(c, "append branch error")
  ELSE IF Cardinality(DOMAIN b.key2BranchNode) = 0
    THEN reportError(c, "append branch invalid, nodeList is empty")
  ELSE IF Cardinality(DOMAIN b.key2BranchNode) = 1
    THEN reportError(c, "append branch invalid, nodeList length = 1")
  ELSE IF Len(c.preNodeKeys) > 1
    THEN reportError(c, "append branch invalid, multiple previous nodes")
  ELSE
    LET startNode == IF Len(c.preNodeKeys) = 0 THEN START ELSE c.preNodeKeys[1]
        nk == nextNodeKey(c, "Branch")
        r1 == AddBranchNodes(nk.c.gg, b, nk.key, iter, << >>)
        c1 == [nk.c EXCEPT !.gg = r1.g]
        gBranch == [kind |-> "chain", key2NodeKey |-> r1.key2NodeKey,
                    endNodes |-> {r1.key2NodeKey[k] : k \in DOMAIN r1.key2NodeKey}]
        r2 == GraphAddBranch(c1.gg, startNode, gBranch)
    IN IF r1.err # Nil THEN reportError(c1, "add branch node to chain failed")
       ELSE IF r2.err # Nil
         THEN reportError([c1 EXCEPT !.gg = r2.g], "chain append branch failed")
       ELSE [c1 EXCEPT !.gg = r2.g,
                       !.preNodeKeys = [i \in 1..Len(vals) |-> r1.key2NodeKey[vals[i]]]]

\* the *Parallel values handed to AppendParallel: nil, one that carries an
\* error, and parallels of 0 to MaxParallel nodes with output keys p1, p2, ..
NilParallel == [isNil |-> TRUE, err |-> Nil, nodes |-> <<>>]
ParallelOf(n, e) ==
  [isNil |-> FALSE, err |-> e,
   nodes |-> [i \in 1..n |-> Node("P" \o ToString(i), "", "lambda", "p" \o ToString(i))]]
Parallels == {NilParallel, ParallelOf(2, "parallel error")}
               \cup {ParallelOf(n, Nil) : n \in 0..MaxParallel}

\* the loop of AppendParallel over p.nodes from index i (0-based, as in the
\* source): stops at the first addNode or AddEdge error
\* the loop of AppendParallel hanging each node off the one before it
RECURSIVE AddParallelNodesChained(_, _, _, _, _, _)
AddParallelNodesChained(g, p, pName, startNode, i, nodeKeys) ==
  IF i >= Len(p.nodes) THEN [g |-> g, err |-> Nil, nodeKeys |-> nodeKeys]
  ELSE LET node == p.nodes[i + 1]
           nodeKey == pName \o "[" \o ToString(i) \o "]_" \o node.name
           from == IF nodeKeys = <<>> THEN startNode ELSE nodeKeys[Len(nodeKeys)]
           r1 == GraphAddNode(g, nodeKey, node)
           r2 == GraphAddEdge(r1.g, from, nodeKey)
       IN IF r1.err # Nil THEN [g |-> r1.g, err |-> r1.err, nodeKeys |-> nodeKeys]
          ELSE IF r2.err # Nil THEN [g |-> r2.g, err |-> r2.err, nodeKeys |-> nodeKeys]
          ELSE AddParallelNodesChained(r2.g, p, pName, startNode, i + 1,
                                       Append(nodeKeys, nodeKey))

RECURSIVE AddParallelNodes(_, _, _, _, _, _)
AddParallelNodes(g, p, pName, startNode, i, nodeKeys) ==
  IF i >= Len(p.nodes) THEN [g |-> g, err |-> Nil, nodeKeys |-> nodeKeys]
  ELSE LET node == p.nodes[i + 1]
           nodeKey == pName \o "[" \o ToString(i) \o "]_" \o node.name
           r1 == GraphAddNode(g, nodeKey, node)
           r2 == GraphAddEdge(r1.g, startNode, nodeKey)
       IN IF r1.err # Nil THEN [g |-> r1.g, err |-> r1.err, nodeKeys |-> nodeKeys]
          ELSE IF r2.err # Nil THEN [g |-> r2.g, err |-> r2.err, nodeKeys |-> nodeKeys]
          ELSE AddParallelNodes(r2.g, p, pName, startNode, i + 1,
                                Append(nodeKeys, nodeKey))

\* AppendParallel that keeps only the last node of the Parallel as previous
AppendParallelLastOnly(c, p) ==
  IF p.isNil THEN reportError(c, "append parallel invalid, parallel is nil")
  ELSE IF p.err # Nil THEN reportError(c, "append parallel invalid, parallel error")
  ELSE IF Len(p.nodes) <= 1
    THEN reportError(c, "append parallel invalid, not enough nodes")
  ELSE IF Len(c.preNodeKeys) > 1
    THEN reportError(c, "append parallel invalid, multiple previous nodes")
  ELSE
    LET startNode == IF Len(c.preNodeKeys) = 0 THEN START ELSE c.preNodeKeys[1]
        nk == nextNodeKey(c, "Parallel")
        r == AddParallelNodes(nk.c.gg, p, nk.key, startNode, 0, <<>>)
        c1 == [nk.c EXCEPT !.gg = r.g]
    IN IF r.err # Nil THEN reportError(c1, "add parallel node to chain failed")
       ELSE [c1 EXCEPT !.preNodeKeys = <<r.nodeKeys[Len(r.nodeKeys)]>>]

\* AppendParallel that lets a Parallel of one node through
AppendParallelOfOne(c, p) ==
  IF p.isNil THEN reportError(c, "append parallel invalid, parallel is nil")
  ELSE IF p.err # Nil THEN reportError(c, "append parallel invalid, parallel error")
  ELSE IF Len(p.nodes) < 1
    THEN reportError(c, "append parallel invalid, not enough nodes")
  ELSE IF Len(c.preNodeKeys) > 1
    THEN reportError(c, "append parallel invalid, multiple previous nodes")
  ELSE
    LET startNode == IF Len(c.preNodeKeys) = 0 THEN START ELSE c.preNodeKeys[1]
        nk == nextNodeKey(c, "Parallel")
        r == AddParallelNodes(nk.c.gg, p, nk.key, startNode, 0, <<>>)
        c1 == [nk.c EXCEPT !.gg = r.g]
    IN IF r.err # Nil THEN reportError(c1, "add parallel node to chain failed")
       ELSE [c1 EXCEPT !.preNodeKeys = r.nodeKeys]

AppendParallel(c, p) ==
  IF p.isNil THEN reportError(c, "append parallel invalid, parallel is nil")
  ELSE IF p.err # Nil THEN reportError(c, "append parallel invalid, parallel error")
  ELSE IF Len(p.nodes) <= 1
    THEN reportError(c, "append parallel invalid, not enough nodes")
  ELSE IF Len(c.preNodeKeys) > 1
    THEN reportError(c, "append parallel invalid, multiple previous nodes")
  ELSE
    LET startNode == IF Len(c.preNodeKeys) = 0 THEN START ELSE c.preNodeKeys[1]
        nk == nextNodeKey(c, "Parallel")
        r == AddParallelNodes(nk.c.gg, p, nk.key, startNode, 0, <<>>)
        c1 == [nk.c EXCEPT !.gg = r.g]
    IN IF r.err # Nil THEN reportError(c1, "add parallel node to chain failed")
       ELSE [c1 EXCEPT !.preNodeKeys = r.nodeKeys]

(***************************************************************************)
(* The compiler: graph.compile.                                            *)
(***************************************************************************)
\* the compile options: the node trigger mode ("" when unset) and the step
\* bound given with WithMaxRunSteps (0 when unset)
CompileOptions(mode, steps) == [nodeTriggerMode |-> mode, maxRunSteps |-> steps]

\* the headroom of the default step bound: node count + 10
DefaultHeadroom == 10

NoRunnable == [ok |-> FALSE]

Successors(g, n) ==
  {e[2] : e \in {x \in SeqToSet(g.edges) : x[1] = n}}
    \cup UNION {b.endNodes : b \in {x \in SeqToSet(g.branches) : x.from = n}}

RECURSIVE ReachFrom(_, _)
ReachFrom(g, S) ==
  LET T == S \cup UNION {Successors(g, n) : n \in S}
  IN IF T = S THEN S ELSE ReachFrom(g, T)

\* every node is reachable from START and has a path to END
Validates(g) ==
  /\ NodeKeys(g) \subseteq ReachFrom(g, {START})
  /\ \A n \in NodeKeys(g) \cup {START} : END \in ReachFrom(g, {n})

\* the checker Chain.Compile wraps in judges the options the check is run with
CompileChecker == [captures |-> FALSE, option |-> CompileOptions("", 0)]
\* the checker Chain.compile wraps in judges the `option` of the compile call
\* that made it
compileChecker(option) == [captures |-> TRUE, option |-> option]

checkTriggerMode(o) ==
  IF o.nodeTriggerMode # "" /\ o.nodeTriggerMode # AnyPredecessor
    THEN "only support AnyPredecessor in chain" ELSE Nil

\* wrapCompileChecker: the checker that runs `origin`, then `new`
wrapCompileChecker(origin, new) == Append(origin, new)

RECURSIVE RunCompileChecker(_, _)
RunCompileChecker(checkers, options) ==
  IF checkers = <<>> THEN Nil
  ELSE LET chk == Head(checkers)
           e == checkTriggerMode(IF chk.captures THEN chk.option ELSE options)
       IN IF e # Nil THEN e ELSE RunCompileChecker(Tail(checkers), options)

MaxSteps(g, options) ==
  IF options.maxRunSteps > 0 THEN options.maxRunSteps
  ELSE Cardinality(NodeKeys(g)) + DefaultHeadroom

GraphCompile(g, options) ==
  IF g.buildError # Nil THEN [g |-> g, tr |-> NoRunnable, err |-> g.buildError]
  ELSE IF RunCompileChecker(g.compileChecker, options) # Nil
    THEN [g |-> g, tr |-> NoRunnable,
          err |-> RunCompileChecker(g.compileChecker, options)]
  ELSE IF ~Validates(g)
    THEN [g |-> g, tr |-> NoRunnable, err |-> "graph validation failed"]
  ELSE [g |-> [g EXCEPT !.frozen = TRUE],
        tr |-> [ok |-> TRUE, nodes |-> g.nodes, edges |-> g.edges,
                branches |-> g.branches, maxSteps |-> MaxSteps(g, options)],
        err |-> Nil]

(***************************************************************************)
(* Chain.addEnds, Chain.Compile, Chain.compile.                            *)
(***************************************************************************)
\* the loop of addEnds stopping after the first previous node
AddEdgesToEndFirstOnly(g, pres) ==
  IF pres = <<>> THEN [g |-> g, err |-> Nil] ELSE GraphAddEdge(g, Head(pres), END)

RECURSIVE AddEdgesToEnd(_, _)
AddEdgesToEnd(g, pres) ==
  IF pres = <<>> THEN [g |-> g, err |-> Nil]
  ELSE LET r == GraphAddEdge(g, Head(pres), END)
       IN IF r.err # Nil THEN r ELSE AddEdgesToEnd(r.g, Tail(pres))

\* addEnds without the check of preNodeKeys
addEndsUnchecked(c) ==
  LET r == AddEdgesToEnd(c.gg, c.preNodeKeys)
  IN [c |-> [c EXCEPT !.gg = r.g], err |-> r.err]

addEnds(c) ==
  IF Len(c.preNodeKeys) = 0 THEN [c |-> c, err |-> "pre node keys not set"]
  ELSE LET r == AddEdgesToEnd(c.gg, c.preNodeKeys)
       IN [c |-> [c EXCEPT !.gg = r.g], err |-> r.err]

\* whether this Compile / compile call runs addEnds
RunsAddEnds(c) == c.err = Nil /\ ~isFrozen(c.gg)

\* the part Compile and compile share; `checker` is the closure they wrap in
CompileWith(c, options, checker) ==
  IF c.err # Nil THEN [c |-> c, tr |-> NoRunnable, err |-> c.err]
  ELSE
    LET r1 == IF ~isFrozen(c.gg) THEN addEnds(c) ELSE [c |-> c, err |-> Nil]
        c1 == [r1.c EXCEPT !.gg.compileChecker =
                              wrapCompileChecker(r1.c.gg.compileChecker, checker)]
        r2 == GraphCompile(c1.gg, options)
    IN IF r1.err # Nil THEN [c |-> r1.c, tr |-> NoRunnable, err |-> r1.err]
       ELSE [c |-> [c1 EXCEPT !.gg = r2.g], tr |-> r2.tr, err |-> r2.err]

Compile(c, opts) == CompileWith(c, opts, CompileChecker)

compile(c, option) == CompileWith(c, option, compileChecker(option))

(***************************************************************************)
(* The values that flow through a run, and the node bodies.                *)
(***************************************************************************)
Str(s) == [t |-> "str", v |-> s]
Map(f) == [t |-> "map", v |-> f]
MergeError == [t |-> "error", v |-> "merge"]

\* a lambda appends its name to a string; given the map of a fan-in it
\* returns its name applied to the map; a passthrough returns its input
Apply(node, in) ==
  IF node.kind = "passthrough" THEN in
  ELSE IF in.t = "str" THEN Str(in.v \o node.name)
  ELSE [t |-> "app", v |-> <<node.name, in.v>>]

\* the output of a node of a Parallel is delivered under its output key
Emit(node, out) == IF node.outputKey # "" THEN Map(node.outputKey :> out) ELSE out

RECURSIVE MergeMaps(_)
MergeMaps(S) ==
  IF S = {} THEN << >>
  ELSE LET m == CHOOSE x \in S : TRUE IN m.v @@ MergeMaps(S \ {m})

\* the input of a node from what its predecessors delivered in one superstep
Merge(deliveries) ==
  LET vals == {d[2] : d \in deliveries}
  IN IF Cardinality(vals) = 1 THEN CHOOSE x \in vals : TRUE
     ELSE IF \A x \in vals : x.t = "map" THEN Map(MergeMaps(vals))
     ELSE MergeError

(***************************************************************************)
(* The condition of a chain branch, as AppendBranch wraps it.              *)
(***************************************************************************)
\* what the user's condition returns: an error, or a value (invoke form) or
\* stream (transform form) of chunks, of string type or not
CondOutcome(e, isString, chunks) == [err |-> e, isString |-> isString, chunks |-> chunks]
CondOutcomes ==
  {CondOutcome("condition error", TRUE, <<>>), CondOutcome(Nil, FALSE, <<"b1">>),
   CondOutcome(Nil, TRUE, <<>>), CondOutcome(Nil, TRUE, <<"b", "2">>)}
    \cup {CondOutcome(Nil, TRUE, <<k>>) : k \in {"b1", "b2", "zz"}}
\* the invoke form returns one value, the transform form a stream
CondOutcomesOf(form) ==
  IF form = "invoke" THEN {o \in CondOutcomes : o.err # Nil \/ Len(o.chunks) = 1}
  ELSE CondOutcomes

RECURSIVE concat(_)
concat(chunks) == IF chunks = <<>> THEN "" ELSE Head(chunks) \o concat(Tail(chunks))

\* the key the user's condition returned, when it returned one
ReturnedKey(o) == concat(o.chunks)

\* invokeCon that wraps the error of the user's condition in its own
invokeConWraps(key2NodeKey, o) ==
  IF o.err # Nil THEN [node |-> "", err |-> "chain branch condition failed"]
  ELSE IF ~o.isString THEN [node |-> "", err |-> "chain branch result not string"]
  ELSE IF o.chunks[1] \notin DOMAIN key2NodeKey
    THEN [node |-> "", err |-> "chain branch result not in added keys"]
  ELSE [node |-> key2NodeKey[o.chunks[1]], err |-> Nil]

\* invokeCon that returns the first node whatever the key
invokeConFirst(key2NodeKey, o) ==
  IF o.err # Nil THEN [node |-> "", err |-> o.err]
  ELSE IF ~o.isString THEN [node |-> "", err |-> "chain branch result not string"]
  ELSE IF o.chunks[1] \notin DOMAIN key2NodeKey
    THEN [node |-> "", err |-> "chain branch result not in added keys"]
  ELSE [node |-> key2NodeKey[CHOOSE k \in DOMAIN key2NodeKey : TRUE], err |-> Nil]

invokeCon(key2NodeKey, o) ==
  IF o.err # Nil THEN [node |-> "", err |-> o.err]
  ELSE IF ~o.isString THEN [node |-> "", err |-> "chain branch result not string"]
  ELSE IF o.chunks[1] \notin DOMAIN key2NodeKey
    THEN [node |-> "", err |-> "chain branch result not in added keys"]
  ELSE [node |-> key2NodeKey[o.chunks[1]], err |-> Nil]

\* transformCon that falls back to a node when the key was not added
transformConFallback(key2NodeKey, o) ==
  IF o.err # Nil THEN [node |-> "", err |-> o.err, closed |-> FALSE]
  ELSE IF ~o.isString
    THEN [node |-> "", err |-> "chain branch result not string", closed |-> FALSE]
  ELSE IF o.chunks = <<>>
    THEN [node |-> "", err |-> "concat of an empty stream", closed |-> TRUE]
  ELSE IF concat(o.chunks) \notin DOMAIN key2NodeKey
    THEN [node |-> key2NodeKey[CHOOSE k \in DOMAIN key2NodeKey : TRUE], err |-> Nil,
          closed |-> TRUE]
  ELSE [node |-> key2NodeKey[concat(o.chunks)], err |-> Nil, closed |-> TRUE]

\* concatStreamReader fails on an empty stream. `closed`: whether the stream the
\* user's condition returned is closed when transformCon returns; transformCon
\* never closes it itself, concatStreamReader closes the stream it has read
transformCon(key2NodeKey, o) ==
  IF o.err # Nil THEN [node |-> "", err |-> o.err, closed |-> FALSE]
  ELSE IF ~o.isString
    THEN [node |-> "", err |-> "chain branch result not string", closed |-> FALSE]
  ELSE IF o.chunks = <<>>
    THEN [node |-> "", err |-> "concat of an empty stream", closed |-> TRUE]
  ELSE IF concat(o.chunks) \notin DOMAIN key2NodeKey
    THEN [node |-> "", err |-> "chain branch result not in added keys", closed |-> TRUE]
  ELSE [node |-> key2NodeKey[concat(o.chunks)], err |-> Nil, closed |-> TRUE]

\* the condition of graph branch b, run in the form of the run on outcome o
BranchCondition(b, form, o) ==
  IF form = "invoke" THEN invokeCon(b.key2NodeKey, o)
  ELSE transformCon(b.key2NodeKey, o)

(***************************************************************************)
(* The scheduler: one run of a Runnable, in supersteps.                    *)
(***************************************************************************)
\* the step counter of a run has reached the step bound of the plan
\* a scheduler without a step bound
NoStepBound(plan, step) == FALSE

StepBoundExceeded(plan, step) == step = plan.maxSteps

NoRun ==
  [status |-> "Ready", form |-> "", step |-> 0, running |-> {}, finished |-> {},
   log |-> <<>>, result |-> Str(""), err |-> Nil]

SetToSeq(S) == CHOOSE s \in Orderings(S) : TRUE

Event(ev, node, val) == [ev |-> ev, node |-> node, val |-> val]

\* the branches whose start node finished in this superstep
ActiveBranches(plan, finished) ==
  {i \in 1..Len(plan.branches) : plan.branches[i].from \in {f[1] : f \in finished}}

NodeOf(plan, n) == IF n = START THEN NilNode ELSE plan.nodes[n]

\* the nodes a finished node delivers to: the end of every edge from it and
\* the one node each branch from it chose (picks[i] is its condition's result)
Targets(plan, n, picks) ==
  {e[2] : e \in {x \in SeqToSet(plan.edges) : x[1] = n}}
    \cup {picks[i].node : i \in {j \in DOMAIN picks : plan.branches[j].from = n}}

\* what the finished nodes deliver: <<to, from, value>>
Deliveries(plan, finished, picks) ==
  UNION {{<<to, f[1], Emit(NodeOf(plan, f[1]), f[2])>> :
            to \in Targets(plan, f[1], picks)} : f \in finished}

InboxOf(ds, n) == {<<d[2], d[3]>> : d \in {x \in ds : x[1] = n}}

Fail(r, e) == [r EXCEPT !.status = "Failed", !.err = e, !.finished = {}]

\* the end of a superstep and the start of the next
Superstep(plan, r, outcomes) ==
  LET act == ActiveBranches(plan, r.finished)
      picks == [i \in act |-> BranchCondition(plan.branches[i], r.form, outcomes[i])]
      bad == {i \in act : picks[i].err # Nil}
      stray == {i \in act : picks[i].node \notin plan.branches[i].endNodes}
      ds == Deliveries(plan, r.finished, picks)
      to == {d[1] : d \in ds}
      conds == [i \in 1..Cardinality(act) |->
                  Event("cond", plan.branches[SetToSeq(act)[i]].from,
                        outcomes[SetToSeq(act)[i]])]
      r1 == [r EXCEPT !.log = r.log \o conds]
      ready == SetToSeq(to)
  IN IF bad # {} THEN Fail(r1, picks[CHOOSE i \in bad : \A j \in bad : i <= j].err)
     ELSE IF stray # {} THEN Fail(r1, "branch target not in declared set")
     ELSE IF END \in to
       THEN IF Merge(InboxOf(ds, END)) = MergeError THEN Fail(r1, "merge failed")
            ELSE [r1 EXCEPT !.status = "Completed", !.finished = {},
                            !.result = Merge(InboxOf(ds, END))]
     ELSE IF to = {} THEN Fail(r1, "no node to run")
     ELSE IF StepBoundExceeded(plan, r.step) THEN Fail(r1, "max steps exceeded")
     ELSE IF \E n \in to : Merge(InboxOf(ds, n)) = MergeError
       THEN Fail(r1, "merge failed")
     ELSE [r1 EXCEPT !.step = r.step + 1, !.finished = {},
                     !.running = {[node |-> n, in |-> Merge(InboxOf(ds, n))] : n \in to},
                     !.log = r1.log \o [i \in 1..Len(ready) |->
                                          Event("start", ready[i],
                                                Merge(InboxOf(ds, ready[i])))]]

\* one running node returns
NodeReturns(plan, r, inv) ==
  [r EXCEPT !.running = r.running \ {inv},
            !.finished = r.finished
                           \cup {<<inv.node, Apply(plan.nodes[inv.node], inv.in)>>},
            !.log = Append(r.log, Event("finish", inv.node,
                                        Apply(plan.nodes[inv.node], inv.in)))]

(***************************************************************************)
(* The ReAct agent: flow/agent/react.                                      *)
(***************************************************************************)
nodeKeyTools == "tools"
nodeKeyModel == "chat"
nodeKeyDirectReturn == "direct_return"

RunIds == {1, 2}

\* a *schema.Message; `run` is the run the message was made in
Message(role, content, toolCalls, toolCallID, r) ==
  [Role |-> role, Content |-> content, ToolCalls |-> toolCalls,
   ToolCallID |-> toolCallID, run |-> r]

\* a call of tool `name` made by the model in run r: IDs are unique to a run
ToolCall(name, r) == [ID |-> "call_" \o name \o "_" \o ToString(r), Name |-> name]

UserInput(r) == <<Message("user", "question", <<>>, "", r)>>

\* AgentConfig: MaxStep and ToolReturnDirectly
AgentConfigs ==
  {[MaxStep |-> k, ToolReturnDirectly |-> d] : k \in 0..MaxConfigStep, d \in {{}, {"t2"}}}

\* the state factory given to WithGenLocalState: every call returns a new
\* instance; the heap holds the instances made so far
NewState == [Messages |-> <<>>, ReturnDirectlyToolCallID |-> ""]
\* a state generator that hands every run the instance made first
GenLocalStateShared(heap) ==
  IF heap = <<>> THEN [addr |-> 1, heap |-> <<NewState>>] ELSE [addr |-> 1, heap |-> heap]

GenLocalState(heap) == [addr |-> Len(heap) + 1, heap |-> Append(heap, NewState)]

\* the loop returning the last call of a tool of the set instead of the first
RECURSIVE LastReturnDirectly(_, _)
LastReturnDirectly(toolCalls, toolReturnDirectly) ==
  IF toolCalls = <<>> THEN ""
  ELSE LET rest == LastReturnDirectly(Tail(toolCalls), toolReturnDirectly)
       IN IF rest # "" THEN rest
          ELSE IF Head(toolCalls).Name \in toolReturnDirectly THEN Head(toolCalls).ID
          ELSE ""

RECURSIVE FirstReturnDirectly(_, _)
FirstReturnDirectly(toolCalls, toolReturnDirectly) ==
  IF toolCalls = <<>> THEN ""
  ELSE IF Head(toolCalls).Name \in toolReturnDirectly THEN Head(toolCalls).ID
  ELSE FirstReturnDirectly(Tail(toolCalls), toolReturnDirectly)

getReturnDirectlyToolCallID(input, toolReturnDirectly) ==
  IF Cardinality(toolReturnDirectly) = 0 THEN ""
  ELSE FirstReturnDirectly(input.ToolCalls, toolReturnDirectly)

\* the state pre-handlers: the state after the handler, and the node's input
modelPreHandle(input, state) ==
  [state |-> [state EXCEPT !.Messages = state.Messages \o input],
   in |-> state.Messages \o input]

toolsNodePreHandle(input, state, config) ==
  [state |-> [state EXCEPT
                !.Messages = Append(state.Messages, input),
                !.ReturnDirectlyToolCallID =
                   getReturnDirectlyToolCallID(input, config.ToolReturnDirectly)],
   in |-> input]

\* the stream of a model: its chunks, and whether receiving fails after them
Stream(chunks, recvErr) == [chunks |-> chunks, recvErr |-> recvErr]

\* a checker that closes the stream only where it has read it to its end
RECURSIVE firstChunkStreamToolCallCheckerNoDefer(_)
firstChunkStreamToolCallCheckerNoDefer(sr) ==
  IF sr.chunks = <<>>
    THEN IF sr.recvErr # Nil
           THEN [isToolCall |-> FALSE, err |-> sr.recvErr, closed |-> TRUE]
           ELSE [isToolCall |-> FALSE, err |-> Nil, closed |-> TRUE]
  ELSE IF Len(Head(sr.chunks).ToolCalls) > 0
    THEN [isToolCall |-> TRUE, err |-> Nil, closed |-> FALSE]
  ELSE IF Head(sr.chunks).Content = ""
    THEN firstChunkStreamToolCallCheckerNoDefer([sr EXCEPT !.chunks = Tail(sr.chunks)])
  ELSE [isToolCall |-> FALSE, err |-> Nil, closed |-> FALSE]

\* a checker that looks at the first chunk only, empty or not
firstChunkOnly(sr) ==
  IF sr.chunks = <<>>
    THEN IF sr.recvErr # Nil
           THEN [isToolCall |-> FALSE, err |-> sr.recvErr, closed |-> TRUE]
           ELSE [isToolCall |-> FALSE, err |-> Nil, closed |-> TRUE]
  ELSE [isToolCall |-> Len(Head(sr.chunks).ToolCalls) > 0, err |-> Nil, closed |-> TRUE]

\* firstChunkStreamToolCallChecker: (isToolCall, err), and whether the stream
\* is closed when it returns: `defer sr.Close()` runs on every return
RECURSIVE firstChunkStreamToolCallChecker(_)
firstChunkStreamToolCallChecker(sr) ==
  IF sr.chunks = <<>>
    THEN IF sr.recvErr # Nil
           THEN [isToolCall |-> FALSE, err |-> sr.recvErr, closed |-> TRUE]
           ELSE [isToolCall |-> FALSE, err |-> Nil, closed |-> TRUE]
  ELSE IF Len(Head(sr.chunks).ToolCalls) > 0
    THEN [isToolCall |-> TRUE, err |-> Nil, closed |-> TRUE]
  ELSE IF Head(sr.chunks).Content = ""
    THEN firstChunkStreamToolCallChecker([sr EXCEPT !.chunks = Tail(sr.chunks)])
  ELSE [isToolCall |-> FALSE, err |-> Nil, closed |-> TRUE]

\* the contexts: the one NewAgent is called with, and the one of run r
NewAgentCtx == "ctx of NewAgent"
RunCtx(r) == "ctx of run " \o ToString(r)

\* a call of the StreamToolCallChecker: the context it was given and what it
\* reported
CheckerCall(ctx, isToolCall) == [ctx |-> ctx, isToolCall |-> isToolCall]
NoCheckerCall == CheckerCall("", FALSE)

\* modelPostBranchCondition that goes to the tools node when the checker
\* reports no tool calls
modelPostBranchConditionInverted(runCtx, sr) ==
  LET chk == firstChunkStreamToolCallChecker(sr)
      call == CheckerCall(NewAgentCtx, chk.isToolCall)
  IN IF chk.err # Nil THEN [node |-> "", err |-> chk.err, checker |-> call]
     ELSE IF ~chk.isToolCall THEN [node |-> nodeKeyTools, err |-> Nil, checker |-> call]
     ELSE [node |-> END, err |-> Nil, checker |-> call]

\* modelPostBranchCondition: (endNode, err), with the call of the checker it
\* made. Its own context parameter is `_`: the checker is given the `ctx` of
\* NewAgent, which the closure captures
modelPostBranchCondition(runCtx, sr) ==
  LET ctx == NewAgentCtx
      chk == firstChunkStreamToolCallChecker(sr)
      call == CheckerCall(ctx, chk.isToolCall)
  IN IF chk.err # Nil THEN [node |-> "", err |-> chk.err, checker |-> call]
     ELSE IF chk.isToolCall THEN [node |-> nodeKeyTools, err |-> Nil, checker |-> call]
     ELSE [node |-> END, err |-> Nil, checker |-> call]

\* a branch condition that leads to END where it should lead back to chat
toolsPostBranchConditionToEnd(state) ==
  IF state.ReturnDirectlyToolCallID # ""
    THEN [node |-> nodeKeyDirectReturn, err |-> Nil, state |-> state]
    ELSE [node |-> END, err |-> Nil, state |-> state]

\* a branch condition that clears ReturnDirectlyToolCallID once it has read it
toolsPostBranchConditionClears(state) ==
  IF state.ReturnDirectlyToolCallID # ""
    THEN [node |-> nodeKeyDirectReturn, err |-> Nil,
          state |-> [state EXCEPT !.ReturnDirectlyToolCallID = ""]]
    ELSE [node |-> nodeKeyModel, err |-> Nil, state |-> state]

\* the condition of the branch buildReturnDirectly adds after the tools node:
\* (endNode, err), and the state as the ProcessState handler leaves it
toolsPostBranchCondition(state) ==
  IF state.ReturnDirectlyToolCallID # ""
    THEN [node |-> nodeKeyDirectReturn, err |-> Nil, state |-> state]
    ELSE [node |-> nodeKeyModel, err |-> Nil, state |-> state]

\* directReturn: the message of msgs whose ToolCallID is the one in the state
RECURSIVE FirstWithToolCallID(_, _)
FirstWithToolCallID(msgs, id) ==
  IF msgs = <<>> THEN [msg |-> Message("", "", <<>>, "", 0), err |-> "ErrNoValue"]
  ELSE IF Head(msgs).ToolCallID = id THEN [msg |-> Head(msgs), err |-> Nil]
  ELSE FirstWithToolCallID(Tail(msgs), id)

\* directReturn that returns the first tool message
directReturnFirst(msgs, state) ==
  IF msgs = <<>> THEN [msg |-> Message("", "", <<>>, "", 0), err |-> "ErrNoValue",
                       state |-> state]
  ELSE [msg |-> Head(msgs), err |-> Nil, state |-> state]

\* (msg, err), and the state as the ProcessState handler leaves it
directReturn(msgs, state) ==
  LET found == FirstWithToolCallID(msgs, state.ReturnDirectlyToolCallID)
  IN [msg |-> found.msg, err |-> found.err, state |-> state]

\* the first error of a sequence of graph builder calls
RECURSIVE Build(_, _)
Build(g, calls) ==
  IF calls = <<>> THEN [g |-> g, err |-> Nil]
  ELSE LET call == Head(calls)
           r == IF call.op = "node" THEN GraphAddNode(g, call.key, call.node)
                ELSE IF call.op = "edge" THEN GraphAddEdge(g, call.from, call.to)
                ELSE GraphAddBranch(g, call.from, call.branch)
       IN IF r.err # Nil THEN r ELSE Build(r.g, Tail(calls))

AddNodeCall(key, kind, name) ==
  [op |-> "node", key |-> key, node |-> Node(name, key, kind, "")]
AddEdgeCall(from, to) == [op |-> "edge", from |-> from, to |-> to]
AddBranchCall(from, kind, endNodes) ==
  [op |-> "branch", from |-> from,
   branch |-> [kind |-> kind, key2NodeKey |-> << >>, endNodes |-> endNodes]]

buildReturnDirectly ==
  <<AddNodeCall(nodeKeyDirectReturn, "direct_return", "direct_return"),
    AddBranchCall(nodeKeyTools, "toolsPost", {nodeKeyModel, nodeKeyDirectReturn}),
    AddEdgeCall(nodeKeyDirectReturn, END)>>

\* the graph builder calls of NewAgent, in order
NewAgentCalls(config) ==
  <<AddNodeCall(nodeKeyModel, "chat", "ChatModel"),
    AddEdgeCall(START, nodeKeyModel),
    AddNodeCall(nodeKeyTools, "tools", "Tools"),
    AddBranchCall(nodeKeyModel, "modelPost", {nodeKeyTools, END})>>
  \o (IF Cardinality(config.ToolReturnDirectly) > 0 THEN buildReturnDirectly
      ELSE <<AddEdgeCall(nodeKeyTools, nodeKeyModel)>>)

\* the compile options of NewAgent
\* compile options without WithMaxRunSteps
compileOptsNoMaxStep(config) == CompileOptions(AnyPredecessor, 0)

compileOpts(config) == CompileOptions(AnyPredecessor, config.MaxStep)

\* NewAgent: the Runnable of the agent, and the error
NewAgent(config) ==
  LET b == Build(NewGraph, NewAgentCalls(config))
      r == GraphCompile(b.g, compileOpts(config))
  IN IF b.err # Nil THEN [runnable |-> NoRunnable, err |-> b.err]
     ELSE [runnable |-> r.tr, err |-> r.err]

(***************************************************************************)
(* One run of the agent's Runnable.                                        *)
(***************************************************************************)
NoPending == [node |-> "", in |-> <<>>]

NoAgentRun ==
  [status |-> "Ready", step |-> 0, pending |-> NoPending, active |-> NoPending,
   state |-> 0, trace |-> <<>>, result |-> <<>>, err |-> Nil,
   checker |-> NoCheckerCall, pc |-> ""]

\* what the chat model returns in run r: an error, or a stream
\* an answer; an answer with a tool call in a later chunk; a call of t1; a
\* call of t1 and t2
ModelOutputs(r) ==
  {Stream(<<Message("assistant", "answer", <<>>, "", r)>>, Nil),
   Stream(<<Message("assistant", "answer", <<>>, "", r),
            Message("assistant", "", <<ToolCall("t1", r)>>, "", r)>>, Nil),
   Stream(<<Message("assistant", "", <<ToolCall("t1", r)>>, "", r)>>, Nil),
   Stream(<<Message("assistant", "", <<ToolCall("t1", r), ToolCall("t2", r)>>, "", r)>>,
          Nil)}

\* ConcatMessages: the message a stream of chunks adds up to
RECURSIVE ConcatMessages(_, _)
ConcatMessages(chunks, r) ==
  IF chunks = <<>> THEN Message("assistant", "", <<>>, "", r)
  ELSE LET rest == ConcatMessages(Tail(chunks), r)
       IN Message("assistant", Head(chunks).Content \o rest.Content,
                  Head(chunks).ToolCalls \o rest.ToolCalls, "", r)

\* the tools node: one tool message per tool call, in the order of the calls
ToolsOutput(input, r) ==
  [i \in 1..Len(input.ToolCalls) |->
     Message("tool", "result of " \o input.ToolCalls[i].Name, <<>>,
             input.ToolCalls[i].ID, r)]

\* where the output of node n goes: the end of the edge from n, or the node
\* the branch from n chose; a choice outside the branch's end nodes is an error
Route(plan, n, pick) ==
  LET edges == {e[2] : e \in {x \in SeqToSet(plan.edges) : x[1] = n}}
      brs == {b \in SeqToSet(plan.branches) : b.from = n}
  IN IF brs = {} THEN [node |-> CHOOSE t \in edges : TRUE, err |-> Nil]
     ELSE IF pick.err # Nil THEN pick
     ELSE IF \E b \in brs : pick.node \notin b.endNodes
       THEN [node |-> "", err |-> "branch target not in declared set"]
     ELSE pick

VARIABLES
  c,            \* the chain
  nAppends,     \* the number of Append* calls made
  nCompiles,    \* the number of Compile / compile calls made
  lastCall,     \* the last call made on the chain and what it returned
  runnable,     \* the Runnable the last successful compile returned
  run,          \* the run of the chain's Runnable
  config,       \* the AgentConfig given to NewAgent
  agent,        \* the Runnable of the agent
  heap,         \* the state instances the state factory has made
  aruns,        \* the runs of the agent
  buildErr,     \* `err`, the named result of buildReturnDirectly, which the
                \* directReturn closure assigns: its value and the runs that
                \* have written it
  call          \* a function called on its own: its input and what it returned

chainVars == <<c, nAppends, nCompiles, lastCall, runnable, run>>
agentVars == <<config, agent, heap, aruns, buildErr>>
callVars == <<call>>
vars ==
  <<c, nAppends, nCompiles, lastCall, runnable, run, config, agent, heap, aruns, buildErr,
    call>>

\* what a call was given: a nil pointer, a value that carries an error, and the
\* number of nodes of a ChainBranch or Parallel
Arg(isNil, hasErr, n) == [isNil |-> isNil, hasErr |-> hasErr, n |-> n]
NoArg == Arg(FALSE, FALSE, 0)

NoCall == [op |-> "none", err |-> Nil, tr |-> FALSE, mode |-> "", errBefore |-> Nil,
           addEnds |-> FALSE, arg |-> NoArg]

NoConfig == [MaxStep |-> 0, ToolReturnDirectly |-> {}]

\* a function called on its own: the function, its input, whether it has
\* returned and what
FuncCall(fn, in) == [fn |-> fn, in |-> in, done |-> FALSE, out |-> <<>>]
NoFuncCall == FuncCall("", <<>>)

\* a variable that closures share: its value and the runs that have written it
Cell(val, writers) == [val |-> val, writers |-> writers]

ChainInit ==
  /\ c = NewChain
  /\ nAppends = 0
  /\ nCompiles = 0
  /\ lastCall = NoCall
  /\ runnable = NoRunnable
  /\ run = NoRun

Init ==
  /\ ChainInit
  /\ config = NoConfig
  /\ agent = NoRunnable
  /\ heap = <<>>
  /\ aruns = [r \in RunIds |-> NoAgentRun]
  /\ buildErr = Cell(Nil, {})
  /\ call = NoFuncCall

Appended(op, arg) ==
  /\ nAppends' = nAppends + 1
  /\ lastCall' = [op |-> op, err |-> c'.err, tr |-> FALSE, mode |-> "",
                  errBefore |-> c.err, addEnds |-> FALSE, arg |-> arg]
  /\ UNCHANGED <<nCompiles, runnable, run>>
  /\ UNCHANGED agentVars
  /\ UNCHANGED callVars

AppendNodeOf(nodes) ==
  \E node \in nodes :
    /\ c' = addNode(c, node)
    /\ Appended("addNode", Arg(node = NilNode, FALSE, 1))

AppendBranchOf(branches) ==
  \E b \in branches :
    /\ \E iter \in Orderings(DOMAIN b.key2BranchNode),
          vals \in Orderings(DOMAIN b.key2BranchNode) :
         c' = AppendBranch(c, b, iter, vals)
    /\ Appended("AppendBranch",
                Arg(b.isNil, b.err # Nil, Cardinality(DOMAIN b.key2BranchNode)))

AppendParallelOf(parallels) ==
  \E p \in parallels :
    /\ c' = AppendParallel(c, p)
    /\ Appended("AppendParallel", Arg(p.isNil, p.err # Nil, Len(p.nodes)))

TriggerModes == {"", AnyPredecessor, AllPredecessor}

Compiled(op, r, mode) ==
  /\ c' = r.c
  /\ nCompiles' = nCompiles + 1
  /\ lastCall' = [op |-> op, err |-> r.err, tr |-> r.tr.ok, mode |-> mode,
                  errBefore |-> c.err, addEnds |-> RunsAddEnds(c), arg |-> NoArg]
  /\ runnable' = IF r.tr.ok THEN r.tr ELSE runnable
  /\ UNCHANGED <<nAppends, run>>
  /\ UNCHANGED agentVars
  /\ UNCHANGED callVars

CallCompile ==
  \E mode \in TriggerModes :
    Compiled("Compile", Compile(c, CompileOptions(mode, 0)), mode)

Callcompile ==
  \E mode \in TriggerModes :
    Compiled("compile", compile(c, CompileOptions(mode, 0)), mode)

(***************************************************************************)
(* Spec: every sequence of at most MaxCalls calls on one chain.            *)
(***************************************************************************)
CanCall == nAppends + nCompiles < MaxCalls

AppendNode ==
  CanCall /\ AppendNodeOf(LambdaNodes(nAppends) \cup {NilNode, PassthroughNode})

DoAppendBranch == CanCall /\ AppendBranchOf(ChainBranches)

DoAppendParallel == CanCall /\ AppendParallelOf(Parallels)

DoCompile == CanCall /\ CallCompile

Docompile == CanCall /\ Callcompile

Next ==
  \/ AppendNode
  \/ DoAppendBranch
  \/ DoAppendParallel
  \/ DoCompile
  \/ Docompile

Spec == Init /\ [][Next]_vars

(***************************************************************************)
(* RunSpec: a chain built by at most MaxAppends Append* calls with valid   *)
(* arguments, compiled once and run once, in the invoke or in the          *)
(* transform form.                                                         *)
(***************************************************************************)
Building == nCompiles = 0 /\ nAppends < MaxAppends

BuildNode ==
  Building /\ AppendNodeOf({n \in LambdaNodes(nAppends) : n.key = ""}
                             \cup {PassthroughNode})

BuildBranch == Building /\ AppendBranchOf({BranchOf({"b1", "b2"}, Nil)})

BuildParallel ==
  Building /\ AppendParallelOf({ParallelOf(n, Nil) : n \in 2..MaxParallel})

BuildCompile == nCompiles = 0 /\ CallCompile

Buildcompile == nCompiles = 0 /\ Callcompile

StartRun ==
  /\ runnable.ok
  /\ run.status = "Ready"
  /\ \E form \in {"invoke", "transform"} :
       run' = [run EXCEPT !.status = "Running", !.form = form,
                          !.finished = {<<START, Str("x")>>}]
  /\ UNCHANGED <<c, nAppends, nCompiles, lastCall, runnable>>
  /\ UNCHANGED agentVars
  /\ UNCHANGED callVars

EndSuperstep ==
  /\ run.status = "Running"
  /\ run.running = {}
  /\ \E outcomes \in [ActiveBranches(runnable, run.finished) -> CondOutcomesOf(run.form)] :
       run' = Superstep(runnable, run, outcomes)
  /\ UNCHANGED <<c, nAppends, nCompiles, lastCall, runnable>>
  /\ UNCHANGED agentVars
  /\ UNCHANGED callVars

NodeFinish ==
  /\ run.status = "Running"
  /\ \E inv \in run.running : run' = NodeReturns(runnable, run, inv)
  /\ UNCHANGED <<c, nAppends, nCompiles, lastCall, runnable>>
  /\ UNCHANGED agentVars
  /\ UNCHANGED callVars

RunNext ==
  \/ BuildNode
  \/ BuildBranch
  \/ BuildParallel
  \/ BuildCompile
  \/ Buildcompile
  \/ StartRun
  \/ EndSuperstep
  \/ NodeFinish

RunSpec == Init /\ [][RunNext]_vars

(***************************************************************************)
(* AgentSpec: runs of the agent NewAgent(config) returns.                  *)
(***************************************************************************)
AgentInit ==
  /\ ChainInit
  /\ config \in AgentConfigs
  /\ agent = NewAgent(config).runnable
  /\ heap = <<>>
  /\ aruns = [r \in RunIds |-> NoAgentRun]
  /\ buildErr = Cell(Nil, {})
  /\ call = NoFuncCall

Terminated(r) == aruns[r].status \in {"Completed", "Failed"}

StateOf(r) == heap[aruns[r].state]

\* Generate: a run starts with its own state and the input for START's successor
Generate(r) ==
  /\ agent.ok
  /\ aruns[r].status = "Ready"
  /\ LET g == GenLocalState(heap)
     IN /\ heap' = g.heap
        /\ aruns' = [aruns EXCEPT ![r] =
                       [@ EXCEPT !.status = "Running", !.state = g.addr,
                                 !.pending = [node |-> Route(agent, START, NoPending).node,
                                              in |-> UserInput(r)]]]
  /\ UNCHANGED <<config, agent, buildErr>>
  /\ UNCHANGED chainVars
  /\ UNCHANGED callVars

\* the next step of run r starts: the step bound is checked, the state
\* pre-handler of the node runs and the node is invoked
BeginNode(r) ==
  LET ar == aruns[r]
      n == ar.pending.node
      kind == agent.nodes[n].kind
      pre == IF kind = "chat" THEN modelPreHandle(ar.pending.in, StateOf(r))
             ELSE IF kind = "tools"
               THEN toolsNodePreHandle(ar.pending.in, StateOf(r), config)
             ELSE [state |-> StateOf(r), in |-> ar.pending.in]
  IN /\ ar.status = "Running"
     /\ ar.pending # NoPending
     /\ IF StepBoundExceeded(agent, ar.step)
          THEN /\ aruns' = [aruns EXCEPT ![r] =
                              [@ EXCEPT !.status = "Failed", !.pending = NoPending,
                                        !.err = "max steps exceeded"]]
               /\ heap' = heap
          ELSE /\ ar.step < StepCap
               /\ aruns' = [aruns EXCEPT ![r] =
                              [@ EXCEPT !.step = ar.step + 1, !.pending = NoPending,
                                        !.active = [node |-> n, in |-> pre.in],
                                        !.trace = Append(ar.trace, n)]]
               /\ heap' = [heap EXCEPT ![ar.state] = pre.state]
     /\ UNCHANGED <<config, agent, buildErr>>
     /\ UNCHANGED chainVars
     /\ UNCHANGED callVars

\* the outcome of the active node of run r: its output, where the output
\* goes, and the call of the tool call checker made on the way
AfterNode(r, out, pick, chk) ==
  LET ar == aruns[r]
      to == Route(agent, ar.active.node, pick)
  IN aruns' = [aruns EXCEPT ![r] =
       IF to.err # Nil
         THEN [@ EXCEPT !.status = "Failed", !.active = NoPending, !.err = to.err,
                        !.checker = chk, !.pc = ""]
       ELSE IF to.node = END
         THEN [@ EXCEPT !.status = "Completed", !.active = NoPending, !.result = out,
                        !.checker = chk, !.pc = ""]
       ELSE [@ EXCEPT !.active = NoPending, !.pending = [node |-> to.node, in |-> out],
                      !.checker = chk, !.pc = ""]]

NodeFails(r, e) ==
  aruns' = [aruns EXCEPT ![r] =
              [@ EXCEPT !.status = "Failed", !.active = NoPending, !.err = e,
                        !.pc = ""]]

\* whether a branch hangs off node n
HasBranch(plan, n) == \E b \in SeqToSet(plan.branches) : b.from = n

\* the conversion of directReturn in run r, up to the return of ProcessState:
\* the handler has looked for the message, and the result of ProcessState (nil:
\* the run has a state of the type asked for) is assigned to `err` of
\* buildReturnDirectly
ProcessStateReturns(r) ==
  LET ar == aruns[r]
  IN /\ ar.status = "Running"
     /\ ar.active # NoPending
     /\ agent.nodes[ar.active.node].kind = "direct_return"
     /\ ar.pc = ""
     /\ buildErr' = Cell(Nil, buildErr.writers \cup {r})
     /\ heap' = [heap EXCEPT ![ar.state] = directReturn(ar.active.in, StateOf(r)).state]
     /\ aruns' = [aruns EXCEPT ![r].pc = "ProcessState returned"]
     /\ UNCHANGED <<config, agent>>
     /\ UNCHANGED chainVars
     /\ UNCHANGED callVars

\* the active node of run r returns and its output is routed; the handlers
\* that are given the state leave it as they return it. directReturn goes on
\* from the return of ProcessState: it reads `err`
EndNode(r) ==
  LET ar == aruns[r]
      kind == agent.nodes[ar.active.node].kind
  IN /\ ar.status = "Running"
     /\ ar.active # NoPending
     /\ \/ /\ kind = "chat"
           /\ \/ \E sr \in ModelOutputs(r) :
                   LET pick == modelPostBranchCondition(RunCtx(r), sr)
                   IN AfterNode(r, ConcatMessages(sr.chunks, r), pick, pick.checker)
              \/ NodeFails(r, "model error")
           /\ heap' = heap
        \/ /\ kind = "tools"
           /\ \/ LET pick == toolsPostBranchCondition(StateOf(r))
                 IN /\ AfterNode(r, ToolsOutput(ar.active.in, r), pick, ar.checker)
                    /\ heap' = IF HasBranch(agent, ar.active.node)
                                 THEN [heap EXCEPT ![ar.state] = pick.state]
                                 ELSE heap
              \/ NodeFails(r, "tool error") /\ heap' = heap
        \/ /\ kind = "direct_return"
           /\ ar.pc = "ProcessState returned"
           /\ LET d == directReturn(ar.active.in, StateOf(r))
              IN IF buildErr.val # Nil THEN NodeFails(r, buildErr.val)
                 ELSE IF d.err # Nil THEN NodeFails(r, d.err)
                 ELSE AfterNode(r, d.msg, NoPending, ar.checker)
           /\ heap' = heap
     /\ UNCHANGED <<config, agent, buildErr>>
     /\ UNCHANGED chainVars
     /\ UNCHANGED callVars

\* AgentSpec: the runs of the agent, at the same time
\* (the runs are alike: run r is the r-th to start)
AgentGenerate ==
  \E r \in RunIds : (\A q \in RunIds : q < r => aruns[q].status # "Ready") /\ Generate(r)
AgentBeginNode == \E r \in RunIds : BeginNode(r)
AgentEndNode == \E r \in RunIds : EndNode(r)

AgentProcessState == \E r \in RunIds : ProcessStateReturns(r)

AgentNext == AgentGenerate \/ AgentBeginNode \/ AgentProcessState \/ AgentEndNode

AgentSpec == AgentInit /\ [][AgentNext]_vars

\* FairRunSpec: one run of the agent. A run is a loop that goes on until it
\* ends: every step that can be taken is taken
OneRunNext == Generate(1) \/ BeginNode(1) \/ ProcessStateReturns(1) \/ EndNode(1)

FairRunSpec ==
  /\ AgentInit
  /\ [][OneRunNext]_vars
  /\ WF_vars(BeginNode(1))
  /\ WF_vars(ProcessStateReturns(1))
  /\ WF_vars(EndNode(1))

(***************************************************************************)
(* What the log of the chain's run says.                                   *)
(***************************************************************************)
Starts(n) == {i \in 1..Len(run.log) : run.log[i].ev = "start" /\ run.log[i].node = n}
Finishes(n) == {i \in 1..Len(run.log) : run.log[i].ev = "finish" /\ run.log[i].node = n}
CondEvents(b) == {i \in 1..Len(run.log) : run.log[i].ev = "cond" /\ run.log[i].node = b.from}
\* the candidates of branch b that were invoked
StartedOf(b) == {n \in b.endNodes : Starts(n) # {}}
\* the condition returned a key, and the key was added to the ChainBranch
ReturnsKey(o) == o.err = Nil /\ o.isString /\ o.chunks # <<>>
ReturnsAddedKey(b, o) == ReturnsKey(o) /\ ReturnedKey(o) \in DOMAIN b.key2NodeKey

(***************************************************************************)
(* C1: a chain of nodes n1..nk appended one after another has exactly the  *)
(* edges START->n1, n_i->n_(i+1), nk->END; its run invokes n1..nk once     *)
(* each, in that order, each after its predecessor has finished, never     *)
(* fails, and returns fk(..f1(input)).                                     *)
(***************************************************************************)
Linear ==
  /\ runnable.ok
  /\ runnable.branches = <<>>
  /\ \A n \in DOMAIN runnable.nodes : runnable.nodes[n].outputKey = ""

\* the key of the i-th appended node: "Chain[i-1]_<its name>"
KeyAt(i) ==
  CHOOSE n \in DOMAIN runnable.nodes \cup {"none"} :
    n \in {ComponentOfChain \o "[" \o ToString(i - 1) \o "]_" \o nm :
             nm \in {NodeNames[i], PassthroughNode.name}}
      \/ (n = "none" /\ \A nm \in {NodeNames[i], PassthroughNode.name} :
            ComponentOfChain \o "[" \o ToString(i - 1) \o "]_" \o nm
              \notin DOMAIN runnable.nodes)

ChainLength == Cardinality(DOMAIN runnable.nodes)

RECURSIVE Composition(_)
Composition(i) ==
  IF i = 0 THEN Str("x") ELSE Apply(runnable.nodes[KeyAt(i)], Composition(i - 1))

C1_LinearChain ==
  Linear =>
    LET k == ChainLength
        edges == [i \in 1..(k + 1) |-> <<IF i = 1 THEN START ELSE KeyAt(i - 1),
                                         IF i = k + 1 THEN END ELSE KeyAt(i)>>]
        order == [j \in 1..(2 * k) |-> <<IF j % 2 = 1 THEN "start" ELSE "finish",
                                         KeyAt((j + 1) \div 2)>>]
    IN /\ \A i \in 1..k : KeyAt(i) # "none"
       /\ runnable.edges = edges
       /\ Len(run.log) <= 2 * k
       /\ \A j \in 1..Len(run.log) : <<run.log[j].ev, run.log[j].node>> = order[j]
       /\ run.status # "Failed"
       /\ run.status = "Completed" => Len(run.log) = 2 * k /\ run.result = Composition(k)

C1_Witness ==
  Linear /\ ChainLength = 3 /\ run.status = "Completed" /\ run.result = Str("xABC")

(***************************************************************************)
(* C2: for every branch of a chain, in every run, the candidate invoked is *)
(* exactly the node registered under the key the condition returned, it is *)
(* invoked once, and no other candidate of the branch is invoked.          *)
(***************************************************************************)
C2_BranchSuccessor ==
  runnable.ok =>
    \A x \in 1..Len(runnable.branches) :
      LET b == runnable.branches[x]
      IN /\ CondEvents(b) = {} => StartedOf(b) = {}
         /\ \A n \in b.endNodes : Cardinality(Starts(n)) <= 1
         /\ \A i \in CondEvents(b) :
              StartedOf(b) = IF ReturnsAddedKey(b, run.log[i].val)
                               THEN {b.key2NodeKey[ReturnedKey(run.log[i].val)]}
                               ELSE {}

C2_Witness ==
  /\ run.status = "Completed"
  /\ \E x \in 1..Len(runnable.branches) :
       LET b == runnable.branches[x]
       IN /\ \E i \in CondEvents(b) : ReturnedKey(run.log[i].val) = "b2"
          /\ StartedOf(b) = {b.key2NodeKey["b2"]}
          /\ Finishes(b.key2NodeKey["b2"]) # {}

(***************************************************************************)
(* C3: the node appended after a Parallel is invoked at most once per run, *)
(* only after every node of the Parallel has finished, on the map that     *)
(* holds the output of each under its output key, whatever the order in    *)
(* which they finish; and a chain compiles only with the trigger mode      *)
(* unset or AnyPredecessor.                                                *)
(***************************************************************************)
ParallelNodes == {n \in DOMAIN runnable.nodes : runnable.nodes[n].outputKey # ""}
Preds(n) == {e[1] : e \in {x \in SeqToSet(runnable.edges) : x[2] = n}}
\* the nodes of the Parallel that p is a node of: they hang off the same node
Siblings(p) == {q \in ParallelNodes : Preds(q) = Preds(p)}
\* the nodes appended after a Parallel
Joins == {n \in DOMAIN runnable.nodes : Preds(n) \cap ParallelNodes # {}}

C3_ParallelJoin ==
  runnable.ok =>
    /\ lastCall.mode # AllPredecessor
    /\ \A j \in Joins :
         /\ Cardinality(Starts(j)) <= 1
         /\ \A i \in Starts(j) :
              LET par == UNION {Siblings(p) : p \in Preds(j) \cap ParallelNodes}
                  in == run.log[i].val
              IN /\ in.t = "map"
                 /\ DOMAIN in.v = {runnable.nodes[q].outputKey : q \in par}
                 /\ \A q \in par :
                      \E f \in Finishes(q) :
                        f < i /\ in.v[runnable.nodes[q].outputKey] = run.log[f].val

\* P2 finished before P1, and J ran on both outputs
C3_Witness ==
  /\ run.status = "Completed"
  /\ \E j \in Joins : \E p1, p2 \in Preds(j) \cap ParallelNodes :
       /\ runnable.nodes[p1].outputKey = "p1"
       /\ runnable.nodes[p2].outputKey = "p2"
       /\ \E f1 \in Finishes(p1), f2 \in Finishes(p2), i \in Starts(j) :
            f2 < f1 /\ f1 < i /\ Finishes(j) # {}

(***************************************************************************)
(* C6: when the condition of a chain branch returns a key that was not     *)
(* added to the ChainBranch, in the invoke and in the transform form, the  *)
(* run fails with a non-nil error and no candidate of the branch is        *)
(* invoked.                                                                *)
(***************************************************************************)
C6_UnknownKeyFails ==
  runnable.ok =>
    \A x \in 1..Len(runnable.branches) :
      LET b == runnable.branches[x]
      IN \A i \in CondEvents(b) :
           ReturnsKey(run.log[i].val) /\ ~ReturnsAddedKey(b, run.log[i].val) =>
             run.status = "Failed" /\ run.err # Nil /\ StartedOf(b) = {}

C6_Witness ==
  /\ run.form = "transform"
  /\ run.status = "Failed"
  /\ run.err = "chain branch result not in added keys"
  /\ \E x \in 1..Len(runnable.branches) :
       \E i \in CondEvents(runnable.branches[x]) : ReturnedKey(run.log[i].val) = "zz"

(***************************************************************************)
(* C7: once the chain holds an error, no call changes it, and every        *)
(* Compile and compile returns that error and no Runnable.                 *)
(***************************************************************************)
C7_FirstErrorKept ==
  [][c.err # Nil =>
       /\ c'.err = c.err
       /\ nCompiles' # nCompiles =>
            lastCall'.err = c.err /\ ~lastCall'.tr /\ runnable' = runnable]_vars

C7_Witness ==
  /\ lastCall.op \in {"Compile", "compile"}
  /\ lastCall.errBefore # Nil
  /\ lastCall.err = lastCall.errBefore
  /\ nAppends >= 2

(***************************************************************************)
(* C8: a Compile or compile call with a trigger mode that is set and is    *)
(* not AnyPredecessor returns an error and no Runnable; with the mode      *)
(* unset or AnyPredecessor the trigger mode check passes.                  *)
(***************************************************************************)
C8_TriggerModeCheck ==
  lastCall.op \in {"Compile", "compile"} /\ lastCall.errBefore = Nil =>
    /\ lastCall.mode = AllPredecessor => lastCall.err # Nil /\ ~lastCall.tr
    /\ lastCall.mode \in {"", AnyPredecessor} =>
         lastCall.err # "only support AnyPredecessor in chain"

(***************************************************************************)
(* C9: over any sequence of Compile and compile calls addEnds adds the     *)
(* edges from the chain's last nodes to END once: no edge to END is in the *)
(* graph twice.                                                            *)
(***************************************************************************)
C9_EndEdgesAddedOnce ==
  \A i, j \in 1..Len(c.gg.edges) :
    c.gg.edges[i][2] = END /\ c.gg.edges[i] = c.gg.edges[j] => i = j

(***************************************************************************)
(* C4: the step counter of a run counts the steps of that run and never    *)
(* passes the step bound k; a run fails with the step bound error only     *)
(* when a further step would start with the counter at k. k is MaxStep     *)
(* when MaxStep is set, and the node count + 10 when it is 0.              *)
(***************************************************************************)
StepBound ==
  IF config.MaxStep > 0 THEN config.MaxStep
  ELSE Cardinality(DOMAIN agent.nodes) + DefaultHeadroom

StepsWithin(k) ==
  \A r \in RunIds :
    /\ aruns[r].step = Len(aruns[r].trace)
    /\ aruns[r].step <= k
    /\ aruns[r].err = "max steps exceeded" =>
         aruns[r].status = "Failed" /\ aruns[r].step = k

C4_StepBound == StepsWithin(StepBound)

\* the claim as made: k is MaxStep
C4_StepBoundIsMaxStep == StepsWithin(config.MaxStep)

C4_Witness ==
  /\ config.MaxStep = 2
  /\ aruns[1].err = "max steps exceeded"
  /\ aruns[2].status = "Completed"
  /\ aruns[2].step = 1

(***************************************************************************)
(* C5: every run of the agent ends, Completed or Failed.                   *)
(***************************************************************************)
C5_RunEnds == (aruns[1].status = "Running") ~> Terminated(1)

\* the model asked for a tool on every call, no tool returns directly, and
\* the run ended on the default step bound
C5_Witness ==
  /\ config = [MaxStep |-> 0, ToolReturnDirectly |-> {}]
  /\ aruns[1].err = "max steps exceeded"
  /\ aruns[1].step = 12

(***************************************************************************)
(* C10: every run has a state instance of its own: the messages in a run's *)
(* state and its ReturnDirectlyToolCallID were made in that run.           *)
(***************************************************************************)
Started(r) == aruns[r].status # "Ready"

C10_StatePerRun ==
  \A r \in RunIds :
    Started(r) =>
      /\ \A q \in RunIds \ {r} : Started(q) => aruns[q].state # aruns[r].state
      /\ \A i \in 1..Len(StateOf(r).Messages) : StateOf(r).Messages[i].run = r
      /\ StateOf(r).ReturnDirectlyToolCallID
           \in {""} \cup {ToolCall(t, r).ID : t \in {"t1", "t2"}}

C10_Witness ==
  /\ aruns[1].status = "Running"
  /\ aruns[2].status = "Running"
  /\ Len(StateOf(1).Messages) >= 2
  /\ Len(StateOf(2).Messages) >= 2
  /\ StateOf(1).ReturnDirectlyToolCallID # ""

(***************************************************************************)
(* C20: AppendBranch and AppendParallel given nil, a value that carries an *)
(* error, or fewer than 2 nodes leave the chain with an error and add no   *)
(* node, no edge and no branch to the graph.                               *)
(***************************************************************************)
TooFew(arg) == arg.isNil \/ arg.hasErr \/ arg.n < 2

C20_TooFewRejected ==
  [][(/\ nAppends' = nAppends + 1
      /\ lastCall'.op \in {"AppendBranch", "AppendParallel"}
      /\ TooFew(lastCall'.arg))
       => /\ c'.err # Nil
          /\ c'.gg.nodes = c.gg.nodes
          /\ c'.gg.edges = c.gg.edges
          /\ c'.gg.branches = c.gg.branches]_vars

\* a chain with a node, then a Parallel of one node: nothing added, and the
\* compile that follows returns the error
C20_Witness ==
  /\ lastCall.op = "Compile"
  /\ lastCall.err = "append parallel invalid, not enough nodes"
  /\ ~lastCall.tr
  /\ NodeKeys(c.gg) = {"Chain[0]_A"}

(***************************************************************************)
(* C12: in a run of the agent the state of the run changes only in the     *)
(* step that starts the chat node or the tools node, where the node's      *)
(* state pre-handler runs; every other step leaves Messages and            *)
(* ReturnDirectlyToolCallID as they are.                                   *)
(***************************************************************************)
C12_StateChangedInPreHandlers ==
  [][\A r \in RunIds :
       (Started(r) /\ heap'[aruns[r].state] # heap[aruns[r].state]) =>
          /\ aruns[r].pending.node \in {nodeKeyModel, nodeKeyTools}
          /\ aruns'[r].active.node = aruns[r].pending.node]_vars

\* a run went through the tools node's branch condition and direct_return
C12_Witness ==
  /\ aruns[1].status = "Completed"
  /\ aruns[1].trace = <<nodeKeyModel, nodeKeyTools, nodeKeyDirectReturn>>
  /\ StateOf(1).ReturnDirectlyToolCallID # ""
  /\ Len(StateOf(1).Messages) = 2

(***************************************************************************)
(* C13: the context the StreamToolCallChecker is given is the context of   *)
(* the run in which it is called.                                          *)
(***************************************************************************)
C13_CheckerGetsRunCtx ==
  \A r \in RunIds : aruns[r].checker.ctx \in {"", RunCtx(r)}

(***************************************************************************)
(* C16: after a chat model invocation the tools node is next if and only   *)
(* if the tool call checker reported tool calls, otherwise the run ends    *)
(* with the model's output; with no return-directly tool every tools       *)
(* invocation is followed by a chat model invocation and a run only        *)
(* completes after the chat model.                                         *)
(***************************************************************************)
LastNode(r) ==
  IF aruns[r].trace = <<>> THEN "" ELSE aruns[r].trace[Len(aruns[r].trace)]
\* run r is between two nodes: the last one returned, the next has not begun
Between(r) == aruns[r].status = "Running" /\ aruns[r].active = NoPending

ModelMessage(r) == StateOf(r).Messages[Len(StateOf(r).Messages)]
CallsReturnDirectly(msg) ==
  \E i \in 1..Len(msg.ToolCalls) : msg.ToolCalls[i].Name \in config.ToolReturnDirectly

C17_ReturnDirectly ==
  \A r \in RunIds :
    LET ar == aruns[r]
        t == ar.trace
    IN /\ \A i \in 1..Len(t) :
            t[i] = nodeKeyDirectReturn => i = Len(t) /\ i > 1 /\ t[i - 1] = nodeKeyTools
       /\ (Between(r) /\ LastNode(r) = nodeKeyTools) =>
            ar.pending.node = IF CallsReturnDirectly(ModelMessage(r))
                                THEN nodeKeyDirectReturn ELSE nodeKeyModel
       /\ (ar.status = "Completed" /\ LastNode(r) = nodeKeyDirectReturn) =>
            /\ ar.result.Role = "tool"
            /\ ar.result.ToolCallID = StateOf(r).ReturnDirectlyToolCallID
            /\ \E i \in 1..Len(ModelMessage(r).ToolCalls) :
                 /\ ModelMessage(r).ToolCalls[i].ID = ar.result.ToolCallID
                 /\ ModelMessage(r).ToolCalls[i].Name \in config.ToolReturnDirectly

\* one run returned the result of t2, the second tool called; the other
\* called t1 only and went back to the chat model
C17_Witness ==
  /\ config.ToolReturnDirectly = {"t2"}
  /\ aruns[1].status = "Completed"
  /\ aruns[1].trace = <<nodeKeyModel, nodeKeyTools, nodeKeyDirectReturn>>
  /\ aruns[1].result.ToolCallID = ToolCall("t2", 1).ID
  /\ aruns[2].trace = <<nodeKeyModel, nodeKeyTools, nodeKeyModel>>

(***************************************************************************)
(* C11: the runs of one agent share no variable that a run writes: no      *)
(* variable is written by two runs.                                        *)
(***************************************************************************)
C11_NoVariableWrittenByTwoRuns == Cardinality(buildErr.writers) <= 1

(***************************************************************************)
(* FuncSpec: firstChunkStreamToolCallChecker, transformCon and             *)
(* getReturnDirectlyToolCallID, each called once on one of its inputs.     *)
(***************************************************************************)
SeqsUpTo(S, n) == UNION {[1..k -> S] : k \in 0..n}

\* the chunks of a model's stream: empty, with content, with a tool call
Chunks ==
  {Message("assistant", "", <<>>, "", 0), Message("assistant", "text", <<>>, "", 0),
   Message("assistant", "", <<ToolCall("t1", 0)>>, "", 0)}

\* the streams given to the checker: receiving fails at their end, or not
CheckerInputs ==
  {Stream(ch, e) : ch \in SeqsUpTo(Chunks, MaxChunks), e \in {Nil, "recv error"}}

\* transformCon of a branch with the keys b1 and b2, on what the user's
\* condition returns
TransformConInputs ==
  {[key2NodeKey |-> ("b1" :> "n1" @@ "b2" :> "n2"), o |-> o] : o \in CondOutcomes}

\* the tool calls of a message: the i-th has the ID call_i
ToolCallsOf(names) ==
  [i \in 1..Len(names) |-> [ID |-> "call_" \o ToString(i), Name |-> names[i]]]

ReturnDirectlyInputs ==
  {[input |-> Message("assistant", "", ToolCallsOf(names), "", 0),
    toolReturnDirectly |-> d] :
     names \in SeqsUpTo({"t1", "t2", "t3"}, MaxToolCalls), d \in SUBSET {"t1", "t2"}}

(***************************************************************************)
(* generic.NewInstance and the reflect values it is built on.              *)
(***************************************************************************)
\* a type: its kind, followed by the type it points to when it is a pointer
\* (<<"ptr", "ptr", "int">> is **int)
BaseKinds == {"int", "string", "struct", "interface", "map", "slice", "array"}
Types == {[i \in 1..(d + 1) |-> IF i <= d THEN "ptr" ELSE k] :
            d \in 0..MaxPtrDepth, k \in BaseKinds}
Kind(typ) == Head(typ)
Elem(typ) == Tail(typ)

\* a value of a type: nil or not, its length (map, slice, array), and what it
\* points to (pointer)
Value(typ, isNil, len, elem) == [typ |-> typ, isNil |-> isNil, len |-> len, elem |-> elem]
NoValue == [none |-> TRUE]
\* the length of the array types of the model
ArrayLen == 2

\* the zero value of a type: nil for a pointer, map, slice and interface
Zero(typ) ==
  IF Kind(typ) \in {"ptr", "map", "slice", "interface"} THEN Value(typ, TRUE, 0, NoValue)
  ELSE IF Kind(typ) = "array" THEN Value(typ, FALSE, ArrayLen, NoValue)
  ELSE Value(typ, FALSE, 0, NoValue)

\* a function returns a value or panics
Return(val) == [panic |-> Nil, val |-> val]
Panic(msg) == [panic |-> msg, val |-> NoValue]

\* reflect.MakeMap: a new empty map
MakeMap(typ) ==
  IF Kind(typ) # "map" THEN Panic("reflect.MakeMap of non-map type")
  ELSE Return(Value(typ, FALSE, 0, NoValue))

\* reflect.MakeSlice: a new slice of the given length; panics on a type that
\* is not a slice type
MakeSlice(typ, len) ==
  IF Kind(typ) # "slice" THEN Panic("reflect.MakeSlice of non-slice type")
  ELSE Return(Value(typ, FALSE, len, NoValue))

\* reflect.New(typ) with the loop of NewInstance applied to it: a pointer to
\* the zero value of typ, where every nil pointer on the way down has been
\* set to a new pointer
RECURSIVE NewFilled(_)
NewFilled(typ) ==
  Value(<<"ptr">> \o typ, FALSE, 0,
        IF Kind(typ) = "ptr" THEN NewFilled(Elem(typ)) ELSE Zero(typ))

NewInstance(typ) ==
  IF Kind(typ) = "map" THEN MakeMap(typ)
  ELSE IF Kind(typ) \in {"slice", "array"} THEN MakeSlice(typ, 0)
  ELSE IF Kind(typ) = "ptr" THEN Return(NewFilled(Elem(typ)))
  ELSE Return(Zero(typ))

(***************************************************************************)
(* prompt.ConvCallbackInput and prompt.ConvCallbackOutput.                 *)
(***************************************************************************)
\* the values handed in as callbacks.CallbackInput / CallbackOutput, by their
\* dynamic type: the ones of TestConvPrompt (&CallbackInput{},
\* map[string]any{}, &CallbackOutput{}, []*schema.Message{}, "asd"), an int
\* and the nil interface
TypCallbackInput == "*prompt.CallbackInput"
TypVariables == "map[string]any"
TypCallbackOutput == "*prompt.CallbackOutput"
TypMessages == "[]*schema.Message"
CallbackValues ==
  {[dyn |-> t] : t \in {TypCallbackInput, TypVariables, TypCallbackOutput, TypMessages,
                        "string", "int", "nil"}}

\* a pointer to a struct of the given type made from src, or the nil pointer
PtrTo(typ, src) == [ptrTo |-> typ, isNil |-> FALSE, from |-> src]
NilPtr(typ) == [ptrTo |-> typ, isNil |-> TRUE, from |-> [dyn |-> "nil"]]

ConvCallbackInput(src) ==
  IF src.dyn = TypCallbackInput THEN PtrTo(TypCallbackInput, src)
  ELSE IF src.dyn = TypVariables THEN PtrTo(TypCallbackInput, src)
  ELSE NilPtr(TypCallbackInput)

\* ConvCallbackOutput that knows the pointer alone
ConvCallbackOutputPointerOnly(src) ==
  IF src.dyn = TypCallbackOutput THEN PtrTo(TypCallbackOutput, src)
  ELSE NilPtr(TypCallbackOutput)

ConvCallbackOutput(src) ==
  IF src.dyn = TypCallbackOutput THEN PtrTo(TypCallbackOutput, src)
  ELSE IF src.dyn = TypMessages THEN PtrTo(TypCallbackOutput, src)
  ELSE NilPtr(TypCallbackOutput)

\* a ChainBranch of two lambdas under the keys and with the node names given
BranchWith(key1, name1, key2, name2) ==
  [isNil |-> FALSE, err |-> Nil,
   key2BranchNode |-> (key1 :> Node(name1, "", "lambda", ""))
                        @@ (key2 :> Node(name2, "", "lambda", ""))]

\* AppendBranch on a new chain and on a chain of one node, given a branch of
\* two nodes whose keys and names are strings the user chose
AppendBranchInputs ==
  UNION {{[c |-> ch, b |-> b, iter |-> iter, vals |-> vals] :
            iter \in Orderings(DOMAIN b.key2BranchNode),
            vals \in Orderings(DOMAIN b.key2BranchNode)} :
          ch \in {NewChain, addNode(NewChain, Node("A", "", "lambda", ""))},
          b \in {BranchWith("b1", "N1", "b2", "N2"), BranchWith("b1", "N", "b2", "N"),
                 BranchWith("a", "x]_y", "a]_x", "y")}}

FuncInit ==
  /\ ChainInit
  /\ config = NoConfig
  /\ agent = NoRunnable
  /\ heap = <<>>
  /\ aruns = [r \in RunIds |-> NoAgentRun]
  /\ buildErr = Cell(Nil, {})
  /\ call \in {FuncCall("firstChunkStreamToolCallChecker", sr) : sr \in CheckerInputs}
              \cup {FuncCall("transformCon", in) : in \in TransformConInputs}
              \cup {FuncCall("getReturnDirectlyToolCallID", in) :
                      in \in ReturnDirectlyInputs}
              \cup {FuncCall("AppendBranch", in) : in \in AppendBranchInputs}
              \cup {FuncCall("NewInstance", [typ |-> typ]) : typ \in Types}
              \cup {FuncCall(fn, src) :
                      fn \in {"ConvCallbackInput", "ConvCallbackOutput"},
                      src \in CallbackValues}

Returns(fn, out) ==
  /\ call.fn = fn
  /\ ~call.done
  /\ call' = [call EXCEPT !.done = TRUE, !.out = out]
  /\ UNCHANGED chainVars
  /\ UNCHANGED agentVars

CallChecker ==
  Returns("firstChunkStreamToolCallChecker", firstChunkStreamToolCallChecker(call.in))

CalltransformCon == Returns("transformCon", transformCon(call.in.key2NodeKey, call.in.o))

CallgetReturnDirectlyToolCallID ==
  Returns("getReturnDirectlyToolCallID",
          getReturnDirectlyToolCallID(call.in.input, call.in.toolReturnDirectly))

CallAppendBranch ==
  Returns("AppendBranch", AppendBranch(call.in.c, call.in.b, call.in.iter, call.in.vals))

CallNewInstance == Returns("NewInstance", NewInstance(call.in.typ))

CallConvCallbackInput == Returns("ConvCallbackInput", ConvCallbackInput(call.in))

CallConvCallbackOutput == Returns("ConvCallbackOutput", ConvCallbackOutput(call.in))

FuncNext ==
  \/ CallChecker
  \/ CalltransformCon
  \/ CallgetReturnDirectlyToolCallID
  \/ CallAppendBranch
  \/ CallNewInstance
  \/ CallConvCallbackInput
  \/ CallConvCallbackOutput

FuncSpec == FuncInit /\ [][FuncNext]_vars

Returned(fn) == call.fn = fn /\ call.done

(***************************************************************************)
(* C14: firstChunkStreamToolCallChecker has closed the stream whenever it  *)
(* returns: at the end of the stream, on a receive error, on a chunk with  *)
(* tool calls and on a chunk with content.                                 *)
(***************************************************************************)
C14_CheckerClosesStream ==
  Returned("firstChunkStreamToolCallChecker") => call.out.closed

\* the checker returned on a tool call with a chunk left unread
C14_Witness ==
  /\ Returned("firstChunkStreamToolCallChecker")
  /\ Len(call.in.chunks) = 3
  /\ call.in.chunks[1].Content = ""
  /\ Len(call.in.chunks[2].ToolCalls) > 0
  /\ call.out.isToolCall
  /\ call.out.closed

(***************************************************************************)
(* C15: transformCon has closed the stream the user's condition returned   *)
(* whenever it returns, also when it returns an error.                     *)
(***************************************************************************)
C15_TransformConClosesStream ==
  (Returned("transformCon") /\ call.in.o.err = Nil) => call.out.closed

(***************************************************************************)
(* C18: getReturnDirectlyToolCallID returns the ID of the first tool call, *)
(* in the order of ToolCalls, whose name is in ToolReturnDirectly, and the *)
(* empty string when the set is empty or no call is in it.                 *)
(***************************************************************************)
C18_FirstReturnDirectlyCall ==
  Returned("getReturnDirectlyToolCallID") =>
    LET calls == call.in.input.ToolCalls
        M == {i \in 1..Len(calls) : calls[i].Name \in call.in.toolReturnDirectly}
    IN call.out = IF M = {} THEN ""
                  ELSE calls[CHOOSE i \in M : \A j \in M : i <= j].ID

\* t3, t2, t1 are called and t1 and t2 return directly: the call of t2 is it
C18_Witness ==
  /\ Returned("getReturnDirectlyToolCallID")
  /\ Len(call.in.input.ToolCalls) = 3
  /\ call.in.input.ToolCalls[1].Name = "t3"
  /\ call.in.input.ToolCalls[2].Name = "t2"
  /\ call.in.input.ToolCalls[3].Name = "t1"
  /\ call.in.toolReturnDirectly = {"t1", "t2"}
  /\ call.out = "call_2"

(***************************************************************************)
(* C19: firstChunkStreamToolCallChecker returns true if and only if the    *)
(* first chunk that has tool calls or content has tool calls; it returns   *)
(* false when the stream ends before such a chunk, and the receive error   *)
(* when receiving fails before such a chunk.                               *)
(***************************************************************************)
Deciding(chunks) ==
  {i \in 1..Len(chunks) : Len(chunks[i].ToolCalls) > 0 \/ chunks[i].Content # ""}

C24_EmptyChainNotCompiled ==
  [][(/\ nCompiles' # nCompiles
      /\ c.err = Nil
      /\ Len(c.preNodeKeys) = 0)
       => /\ lastCall'.err = "pre node keys not set"
          /\ ~lastCall'.tr
          /\ c'.gg.edges = c.gg.edges
          /\ runnable' = runnable
          /\ (runnable.ok => <<START, END>> \notin SeqToSet(runnable.edges))]_vars

\* a new chain compiled twice: both calls fail the same way
C24_Witness ==
  /\ nAppends = 0
  /\ nCompiles = 2
  /\ lastCall.err = "pre node keys not set"
  /\ c.err = Nil
  /\ c.gg.edges = <<>>

(***************************************************************************)
(* C23: AppendBranch and AppendParallel, given a branch or parallel of at  *)
(* least 2 nodes, on a chain with more than one previous node fail with    *)
(* the "multiple previous nodes" error (the chain keeps an earlier error   *)
(* when it holds one), add nothing to the graph and leave preNodeKeys and  *)
(* nodeIdx as they were; on a new chain they attach to START.              *)
(***************************************************************************)
MultiplePreviousNodes(op) ==
  IF op = "AppendBranch" THEN "append branch invalid, multiple previous nodes"
  ELSE "append parallel invalid, multiple previous nodes"

\* the graph hangs everything it has off START
AttachedToStart(g) ==
  /\ NodeKeys(g) # {}
  /\ Successors(g, START) = NodeKeys(g)

C23_MultiplePreviousNodes ==
  [][(/\ nAppends' = nAppends + 1
      /\ lastCall'.op \in {"AppendBranch", "AppendParallel"}
      /\ ~TooFew(lastCall'.arg))
       => /\ Len(c.preNodeKeys) > 1 =>
               /\ c'.err = IF c.err = Nil THEN MultiplePreviousNodes(lastCall'.op)
                           ELSE c.err
               /\ c'.gg = c.gg
               /\ c'.preNodeKeys = c.preNodeKeys
               /\ c'.nodeIdx = c.nodeIdx
          /\ c = NewChain =>
               /\ c'.err = Nil
               /\ AttachedToStart(c'.gg)
               /\ SeqToSet(c'.preNodeKeys) = NodeKeys(c'.gg)]_vars

\* a Parallel, then a branch right after it
C23_Witness ==
  /\ lastCall.op = "AppendBranch"
  /\ lastCall.errBefore = Nil
  /\ lastCall.err = "append branch invalid, multiple previous nodes"
  /\ Len(c.preNodeKeys) = 2
  /\ Cardinality(NodeKeys(c.gg)) = 2
  /\ c.nodeIdx = 1

(***************************************************************************)
(* C22: after an AppendBranch or AppendParallel that leaves the chain      *)
(* without an error, preNodeKeys is exactly the keys of the nodes the call *)
(* added; the node appended next gets one edge from each of them, and a    *)
(* Compile or compile that follows directly adds one edge from each of     *)
(* them to END, so that none of them is left without an outgoing edge.     *)
(***************************************************************************)
EdgeCount(g, from, to) ==
  Cardinality({i \in 1..Len(g.edges) : g.edges[i] = <<from, to>>})

\* the last call was an AppendBranch or AppendParallel and the chain is sound
AfterFanOut == lastCall.op \in {"AppendBranch", "AppendParallel"} /\ c.err = Nil

C22_FanOutConverges ==
  [][/\ (/\ nAppends' = nAppends + 1
         /\ lastCall'.op \in {"AppendBranch", "AppendParallel"}
         /\ c'.err = Nil)
          => /\ SeqToSet(c'.preNodeKeys) = NodeKeys(c'.gg) \ NodeKeys(c.gg)
             /\ Len(c'.preNodeKeys) = Cardinality(SeqToSet(c'.preNodeKeys))
             /\ Len(c'.preNodeKeys) >= 2
     /\ (AfterFanOut /\ lastCall'.op = "addNode" /\ c'.err = Nil)
          => \E n \in NodeKeys(c'.gg) \ NodeKeys(c.gg) :
               /\ c'.preNodeKeys = <<n>>
               /\ \A p \in SeqToSet(c.preNodeKeys) : EdgeCount(c'.gg, p, n) = 1
     /\ (AfterFanOut /\ nCompiles' # nCompiles)
          => \A p \in SeqToSet(c.preNodeKeys) :
               /\ EdgeCount(c'.gg, p, END) = 1
               /\ Successors(c'.gg, p) = {END}]_vars

\* a branch, then a node: both nodes of the branch have their edge to it
C22_Witness ==
  /\ lastCall.op = "addNode"
  /\ c.err = Nil
  /\ Len(c.gg.branches) = 1
  /\ c.gg.branches[1].from = START
  /\ c.preNodeKeys = <<"Chain[1]_B">>
  /\ \A n \in c.gg.branches[1].endNodes : EdgeCount(c.gg, n, "Chain[1]_B") = 1

Connected(g) ==
  \A n \in NodeKeys(g) : n \in ReachFrom(g, {START}) /\ END \in ReachFrom(g, {n})

\* the last call was a Compile or compile in which addEnds ran and returned nil
AddEndsDone ==
  /\ lastCall.op \in {"Compile", "compile"}
  /\ lastCall.errBefore = Nil
  /\ lastCall.addEnds
  /\ lastCall.err # "pre node keys not set"

C26_AllNodesConnected ==
  [][(nCompiles' # nCompiles /\ AddEndsDone')
       => NodeKeys(c'.gg) # {} /\ Connected(c'.gg)]_vars

\* a node, then a branch, compiled: four edges, two of them to END
C26_Witness ==
  /\ AddEndsDone
  /\ lastCall.tr
  /\ Len(c.gg.branches) = 1
  /\ Cardinality(NodeKeys(c.gg)) = 3
  /\ \A n \in c.gg.branches[1].endNodes : <<n, END>> \in SeqToSet(c.gg.edges)

(***************************************************************************)
(* C28: the node keys a chain generates are pairwise distinct: nextNodeKey *)
(* gives every element its own index, and the keys of the members of one   *)
(* branch differ by their branch key. So AppendBranch, on a chain without  *)
(* an error and given two nodes under different keys, advances nodeIdx by  *)
(* one, adds two nodes to the graph and reports no error.                  *)
(***************************************************************************)
C28_GeneratedKeysDistinct ==
  Returned("AppendBranch") =>
    /\ call.out.nodeIdx = call.in.c.nodeIdx + 1
    /\ Cardinality(NodeKeys(call.out.gg) \ NodeKeys(call.in.c.gg)) = 2
    /\ call.out.err = Nil

(***************************************************************************)
(* C25: when the condition of a chain branch returns an error, the run     *)
(* fails with that error, unchanged, and no candidate node of the branch   *)
(* is invoked.                                                             *)
(***************************************************************************)
C25_ConditionErrorFailsRun ==
  runnable.ok =>
    \A x \in 1..Len(runnable.branches) :
      \A i \in CondEvents(runnable.branches[x]) :
        run.log[i].val.err # Nil =>
          /\ run.status = "Failed"
          /\ run.err = run.log[i].val.err
          /\ StartedOf(runnable.branches[x]) = {}
          /\ i = Len(run.log)

\* a node, then a branch whose condition fails, in the transform form
C25_Witness ==
  /\ run.status = "Failed"
  /\ run.form = "transform"
  /\ run.err = "condition error"
  /\ Len(runnable.branches) = 1
  /\ runnable.branches[1].from # START
  /\ Finishes(runnable.branches[1].from) # {}
  /\ StartedOf(runnable.branches[1]) = {}

(***************************************************************************)
(* C27: in the agent's graph, with and without return-directly tools,      *)
(* every key a branch condition returns is one of the end nodes the branch *)
(* was added with (after chat: tools or END; after tools: chat or          *)
(* direct_return), and no run fails with the branch routing error.         *)
(***************************************************************************)
\* the keys the condition of a branch of the given kind returns without error
ConditionKeys(kind) ==
  IF kind = "modelPost"
    THEN {p.node : p \in {x \in {modelPostBranchCondition(RunCtx(r), sr) :
                                   r \in RunIds, sr \in ModelOutputs(1) \cup ModelOutputs(2)} :
                            x.err = Nil}}
    ELSE {p.node : p \in {x \in {toolsPostBranchCondition(
                                   [NewState EXCEPT !.ReturnDirectlyToolCallID = id]) :
                                   id \in {"", ToolCall("t2", 1).ID}} :
                            x.err = Nil}}

C27_ConditionKeysDeclared ==
  /\ agent.ok =>
       \A i \in 1..Len(agent.branches) :
         /\ ConditionKeys(agent.branches[i].kind) \subseteq agent.branches[i].endNodes
         /\ agent.branches[i].endNodes =
              IF agent.branches[i].from = nodeKeyModel THEN {nodeKeyTools, END}
              ELSE {nodeKeyModel, nodeKeyDirectReturn}
  /\ \A r \in RunIds : aruns[r].err # "branch target not in declared set"

\* with return-directly tools, a run took the tools branch both ways: back to
\* chat after the call of t1, to direct_return after the call of t1 and t2
C27_Witness ==
  /\ config.ToolReturnDirectly = {"t2"}
  /\ aruns[1].status = "Completed"
  /\ aruns[1].trace =
       <<nodeKeyModel, nodeKeyTools, nodeKeyModel, nodeKeyTools, nodeKeyDirectReturn>>
  /\ aruns[2].status = "Completed"
  /\ aruns[2].trace = <<nodeKeyModel>>

(***************************************************************************)
(* C30: NewInstance[T] returns for every type T, without failing: a        *)
(* non-nil empty map for a map type, a non-nil empty value for a slice or  *)
(* array type, for a pointer type a pointer that is non-nil at every level *)
(* down to the zero value of the innermost type, and the zero value for    *)
(* every other kind.                                                       *)
(***************************************************************************)
\* v is non-nil at every pointer level and ends in the zero value
RECURSIVE NonNilDownToZero(_)
NonNilDownToZero(v) ==
  IF Kind(v.typ) # "ptr" THEN v = Zero(v.typ)
  ELSE ~v.isNil /\ v.elem # NoValue /\ v.elem.typ = Elem(v.typ)
         /\ NonNilDownToZero(v.elem)

C30_NewInstanceUsable ==
  Returned("NewInstance") =>
    /\ call.out.panic = Nil
    /\ call.out.val.typ = call.in.typ
    /\ IF Kind(call.in.typ) \in {"map", "slice"}
         THEN ~call.out.val.isNil /\ call.out.val.len = 0
       ELSE IF Kind(call.in.typ) = "array" THEN ~call.out.val.isNil
       ELSE IF Kind(call.in.typ) = "ptr" THEN NonNilDownToZero(call.out.val)
       ELSE call.out.val = Zero(call.in.typ)

====
